---- MODULE Spec2Model ----
(***************************************************************************)
(* A model of mypy_drf_plugin/main.py: the base-class hook of the plugin,  *)
(* the deferred handler handle_serializer_class, the resolution            *)
(* redefine_and_typecheck_serializer_fields with the property injector     *)
(* add_property_returning_typed_dict, and the return-type resolver         *)
(* handle_return_type.  The host (mypy) is the environment: it declares    *)
(* classes, runs analysis passes over them and analyses type expressions.  *)
(***************************************************************************)
EXTENDS Integers, Sequences, FiniteSets, TLC

VARIABLES
    bases,      \* class fullname -> fullname of its declared base ("" = no TypeInfo yet)
    names,      \* class fullname -> member table (ctx.cls.info.names), a dict name -> entry
    metadata,   \* TypeInfo.metadata of the base serializer class, a nested dict
    meta_any,   \* classes whose nested Meta was made to inherit from Any
    phase,      \* class fullname -> position of the host's analysis of that class
    call,       \* the most recent invocation of the base-class hook, with its outcome
    analyzed    \* the most recent invocation of handle_return_type, with its result

vars == <<bases, names, metadata, meta_any, phase, call, analyzed>>

----------------------------------------------------------------------------
(* Bounds of the model.                                                    *)

\* Hook invocations the host makes in one run.
MaxCalls == 3

----------------------------------------------------------------------------
(* Names.                                                                  *)

BASE_SERIALIZER_FULLNAME == "rest_framework.serializers.BaseSerializer"
SERIALIZER_FULLNAME == "rest_framework.serializers.Serializer"
OBJECT_FULLNAME == "builtins.object"

LibraryClasses == {BASE_SERIALIZER_FULLNAME, SERIALIZER_FULLNAME}
UserClasses == {"app.PersonSerializer", "app.TeamSerializer"}
Classes == LibraryClasses \cup UserClasses

\* The base the library's own declarations name: BaseSerializer is a root,
\* Serializer derives from BaseSerializer.
LibraryBase(c) ==
    IF c = SERIALIZER_FULLNAME THEN BASE_SERIALIZER_FULLNAME ELSE OBJECT_FULLNAME

EmptyDict == [k \in {} |-> 0]

\* d[k] = v of a Python dict.
SetItem(d, k, v) == (k :> v) @@ d

----------------------------------------------------------------------------
(* Types of the checker.                                                   *)

AnyType == [t |-> "Any", cls |-> "", nullable |-> FALSE]
Instance(cls) == [t |-> "Instance", cls |-> cls, nullable |-> FALSE]

\* mypy_django_plugin's get_private_descriptor_type(node, "_pyi_field_actual_type",
\* is_nullable): the field's value type, made optional when is_nullable.
get_private_descriptor_type(cls, is_nullable) ==
    [t |-> "_pyi_field_actual_type", cls |-> cls, nullable |-> is_nullable]

TypedDictType(keys) == [ctor |-> "TypedDict", items |-> keys]
ListOf(td) == [ctor |-> "typing.List", items |-> td.items]
MappingType == [ctor |-> "typing.Mapping", items |-> EmptyDict]
UserReturnType == [ctor |-> "user", items |-> EmptyDict]

\* ctx.api.modules: the symbol tables of the modules the checker has loaded.
Modules == ("rest_framework.fields" :> {"CharField", "IntegerField"})

----------------------------------------------------------------------------
(* The runtime side: what the dynamic import and the shadow instance give. *)

FieldNames == {"name", "age"}
FieldClasses ==
    { [module |-> "rest_framework.fields", cls |-> "CharField"],
      [module |-> "rest_framework.fields", cls |-> "MoneyField"],
      [module |-> "app.fields", cls |-> "CharField"] }

Field == [name : FieldNames, source : FieldNames, class : FieldClasses,
          allow_null : BOOLEAN]

\* FakeSerializer().fields: an ordered dict, one field per name.
FieldLists ==
    {<<>>} \cup {<<f>> : f \in Field}
           \cup {<<f, g>> \in Field \X Field : f.name # g.name}

\* The metaclass of every serializer class object, by its MRO.
SerializerMetaclassMro == {"SerializerMetaclass", "type", "object"}

NoSer == [importable |-> FALSE, has_attr |-> FALSE, mro |-> {}, has_meta |-> FALSE,
          in_modules |-> FALSE, fields |-> <<>>]

\* The outcomes of import_module(module_path) and getattr(module, klass): the
\* module may fail to import, lack the class, or hold a class with a given
\* runtime MRO and Meta; the shadow instance of an applicable class computes
\* the fields fs; the target module may be absent from ctx.api.modules.
Failing ==
    { [NoSer EXCEPT !.in_modules = TRUE],
      [NoSer EXCEPT !.importable = TRUE, !.in_modules = TRUE] }

Loaded(mros, metas, mods, fss) ==
    { [importable |-> TRUE, has_attr |-> TRUE, mro |-> m, has_meta |-> hm,
       in_modules |-> im, fields |-> fs] :
         m \in mros, hm \in metas, im \in mods, fs \in fss }

RuntimeMros == SUBSET {"ModelSerializer", "ListSerializer"}

\* Every outcome, with at most one field.
Sers ==
    Failing \cup Loaded(RuntimeMros, BOOLEAN, {TRUE}, {<<>>})
            \cup Loaded({{"ModelSerializer"}, {"ModelSerializer", "ListSerializer"}},
                        {TRUE}, BOOLEAN,
                        {<<f>> : f \in {g \in Field : g.source = g.name}})

\* The outcomes the host's scheduling is exercised with.
HostSers ==
    Failing \cup Loaded({{"ModelSerializer"}, {}}, {TRUE}, {TRUE}, {<<>>})

\* The applicable classes, with every list of fields.
FieldSers ==
    Loaded({{"ModelSerializer"}, {"ModelSerializer", "ListSerializer"}},
           {TRUE}, {TRUE}, FieldLists)

issubclass(ser, cls) == cls \in ser.mro
isinstance(ser, cls) == cls \in SerializerMetaclassMro

----------------------------------------------------------------------------
(* Symbol table entries.                                                   *)

\* An optional callable type: <<>> is None, <<r>> a CallableType returning r.
NoType == <<>>
CallableType(ret_type) == <<ret_type>>

\* The SymbolTableNode(MDEF, dec, plugin_generated=True) of lines 93-111: a
\* Decorator of a FuncDef carrying the callable type and a Var created without
\* a type.  made_in names the invocation that constructed the node.
Decorator(property_name, ret_type, serial) ==
    [node |-> "Decorator", name |-> property_name, plugin_generated |-> TRUE,
     made_in |-> serial, var_type |-> NoType, func_type |-> CallableType(ret_type)]

\* A member the class's author wrote: an annotated method.
UserEntry(property_name) ==
    [node |-> "FuncDef", name |-> property_name, plugin_generated |-> FALSE,
     made_in |-> 0, var_type |-> NoType, func_type |-> CallableType(UserReturnType)]

\* SymbolTableNode.type as read at line 129: the type of a Var or function
\* node, and for a Decorator node the type of its Var.
SymbolType(entry) ==
    IF entry.node = "FuncDef" THEN entry.func_type
    ELSE IF entry.node = "Decorator" THEN entry.var_type
    ELSE NoType

----------------------------------------------------------------------------
(* The static side: TypeInfos, lookup, metadata.                           *)

Declared(c, bs) == IF c = OBJECT_FULLNAME THEN TRUE ELSE bs[c] # ""

RECURSIVE Mro(_, _)
Mro(c, bs) ==
    IF c = OBJECT_FULLNAME THEN {c}
    ELSE IF bs[c] = "" THEN {c}
    ELSE {c} \cup Mro(bs[c], bs)

\* TypeInfo.has_base(fullname)
has_base(c, fullname, bs) == fullname \in Mro(c, bs)

\* metadata["drf"]["serializer_bases"], or the empty dict's keys
Registry(md) ==
    IF "drf" \in DOMAIN md /\ "serializer_bases" \in DOMAIN md["drf"]
    THEN md["drf"]["serializer_bases"] ELSE {}

DefaultRegistry == {BASE_SERIALIZER_FULLNAME}

\* metadata.setdefault("drf", {}).setdefault("serializer_bases", default)
SetDefault(md, default) ==
    LET drf == IF "drf" \in DOMAIN md THEN md["drf"] ELSE EmptyDict
    IN  IF "serializer_bases" \in DOMAIN drf THEN SetItem(md, "drf", drf)
        ELSE SetItem(md, "drf", SetItem(drf, "serializer_bases", default))

\* NewSemanalDRFPlugin._get_currently_defined_serializers: the metadata after
\* the call; the dict it returns is Registry of that, or {} with no base loaded.
get_currently_defined_serializers(md, bs) ==
    IF Declared(BASE_SERIALIZER_FULLNAME, bs) THEN SetDefault(md, DefaultRegistry) ELSE md

\* Fault: the hook gates on the registry alone, not on the base's hierarchy.
get_base_class_hook_by_registry(fullname, md, bs) ==
    LET md1 == get_currently_defined_serializers(md, bs)
        defined == IF Declared(BASE_SERIALIZER_FULLNAME, bs) THEN Registry(md1) ELSE {}
    IN  [handler |-> Declared(fullname, bs) /\ fullname \in defined,
         base_process |-> fullname \in defined,
         metadata |-> md1]

\* NewSemanalDRFPlugin.get_base_class_hook(fullname)
get_base_class_hook(fullname, md, bs) ==
    LET md1 == get_currently_defined_serializers(md, bs)
        defined == IF Declared(BASE_SERIALIZER_FULLNAME, bs) THEN Registry(md1) ELSE {}
    IN  [handler |-> Declared(fullname, bs) /\ has_base(fullname, SERIALIZER_FULLNAME, bs),
         base_process |-> fullname \in defined,
         metadata |-> md1]

\* transform_serializer_class(ctx): the metadata and the widened Meta classes after it
transform_serializer_class(c, md, ma, bs) ==
    [metadata |->
        IF Declared(BASE_SERIALIZER_FULLNAME, bs)
        THEN LET drf == IF "drf" \in DOMAIN md THEN md["drf"] ELSE EmptyDict
             IN  SetItem(md, "drf",
                    SetItem(drf, "serializer_bases", Registry(md) \cup {c}))
        ELSE md,
     meta_any |-> ma \cup {c}]

----------------------------------------------------------------------------
(* The resolution.                                                         *)

\* Fault: the injector installs the property whether or not it is defined.
add_property_overwriting(tbl, typed_dict_keys, property_name, is_list, is_data_defined, serial) ==
    LET td == TypedDictType(typed_dict_keys)
        ret_type == IF is_list THEN ListOf(td) ELSE td
        dec == Decorator(property_name, ret_type, serial)
        t1 == SetItem(tbl, property_name, dec)
    IN  IF property_name = "data" THEN SetItem(t1, "_pyi_data", t1[property_name])
        ELSE t1

\* add_property_returning_typed_dict: the member table after the call
add_property_returning_typed_dict(tbl, typed_dict_keys, property_name, is_list, is_data_defined, serial) ==
    LET td == TypedDictType(typed_dict_keys)
        ret_type == IF is_list THEN ListOf(td) ELSE td
        dec == Decorator(property_name, ret_type, serial)
        t1 == IF ~is_data_defined THEN SetItem(tbl, property_name, dec) ELSE tbl
    IN  IF property_name = "data" THEN SetItem(t1, "_pyi_data", t1[property_name])
        ELSE t1

\* Whether ctx.api.modules[field.__module__].names[field.__class__.__name__]
\* finds an entry (no KeyError).
Found(field) ==
    IF field.class.module \in DOMAIN Modules
    THEN field.class.cls \in Modules[field.class.module]
    ELSE FALSE

\* The loop of lines 50-61 over the shadow instance's fields, in order.
RECURSIVE field_loop(_, _)
field_loop(fields, acc) ==
    IF fields = <<>> THEN acc
    ELSE LET field == Head(fields)
             found == Found(field)
         IN  field_loop(Tail(fields),
                [field_types |->
                    SetItem(acc.field_types, field.name,
                            IF found THEN Instance(field.class.cls) ELSE AnyType),
                 data_types |->
                    SetItem(acc.data_types, field.source,
                            IF found
                            THEN get_private_descriptor_type(field.class.cls,
                                                             field.allow_null)
                            ELSE AnyType)])

\* The injections of lines 62-74, once the types are mapped.
inject(tbl, types, ser, serial, check_fields) ==
    IF ~ser.in_modules THEN [names |-> tbl, raised |-> "KeyError"]
    ELSE LET t1 == IF check_fields => "fields" \notin DOMAIN tbl
                   THEN add_property_returning_typed_dict(
                           tbl, types.field_types, "fields", FALSE, FALSE, serial)
                   ELSE tbl
         IN  [names |->
                 add_property_returning_typed_dict(
                     t1, types.data_types, "data",
                     isinstance(ser, "ListSerializer"),
                     "data" \in DOMAIN t1, serial),
              raised |-> ""]

\* Fault: "fields" is installed without looking for a declared member.
redefine_replacing_fields(tbl, ser, serial) ==
    IF ~ser.importable THEN [names |-> tbl, raised |-> "ImportError"]
    ELSE IF ~ser.has_attr THEN [names |-> tbl, raised |-> ""]
    ELSE IF ~(issubclass(ser, "ModelSerializer") /\ ser.has_meta)
    THEN [names |-> tbl, raised |-> ""]
    ELSE inject(tbl, field_loop(ser.fields,
                        [field_types |-> EmptyDict, data_types |-> EmptyDict]),
                ser, serial, FALSE)

\* Fault: the applicability test forgets the nested Meta class.
redefine_without_meta_test(tbl, ser, serial) ==
    IF ~ser.importable THEN [names |-> tbl, raised |-> "ImportError"]
    ELSE IF ~ser.has_attr THEN [names |-> tbl, raised |-> ""]
    ELSE IF ~issubclass(ser, "ModelSerializer")
    THEN [names |-> tbl, raised |-> ""]
    ELSE inject(tbl, field_loop(ser.fields,
                        [field_types |-> EmptyDict, data_types |-> EmptyDict]),
                ser, serial, TRUE)

\* redefine_and_typecheck_serializer_fields: the member table after the call
\* and the exception that left it, "" when it returned.
redefine_and_typecheck_serializer_fields(tbl, ser, serial) ==
    IF ~ser.importable THEN [names |-> tbl, raised |-> "ImportError"]
    ELSE IF ~ser.has_attr THEN [names |-> tbl, raised |-> ""]
    ELSE IF ~(issubclass(ser, "ModelSerializer") /\ ser.has_meta)
    THEN [names |-> tbl, raised |-> ""]
    ELSE inject(tbl, field_loop(ser.fields,
                        [field_types |-> EmptyDict, data_types |-> EmptyDict]),
                ser, serial, TRUE)

\* Fault: the handler goes on to the resolution after requesting deferral.
handle_serializer_class_falling_through(c, final_iteration, base_process, ser, serial, md, ma, bs, tbl) ==
    LET tr == IF base_process THEN transform_serializer_class(c, md, ma, bs)
              ELSE [metadata |-> md, meta_any |-> ma]
        r == redefine_and_typecheck_serializer_fields(tbl, ser, serial)
    IN  [metadata |-> tr.metadata, meta_any |-> tr.meta_any,
         names |-> r.names, deferred |-> ~final_iteration, raised |-> r.raised]

\* handle_serializer_class(ctx, django_context, base_process) for class c
handle_serializer_class(c, final_iteration, base_process, ser, serial, md, ma, bs, tbl) ==
    LET tr == IF base_process THEN transform_serializer_class(c, md, ma, bs)
              ELSE [metadata |-> md, meta_any |-> ma]
    IN  IF ~final_iteration
        THEN [metadata |-> tr.metadata, meta_any |-> tr.meta_any, names |-> tbl,
              deferred |-> TRUE, raised |-> ""]
        ELSE LET r == redefine_and_typecheck_serializer_fields(tbl, ser, serial)
             IN  [metadata |-> tr.metadata, meta_any |-> tr.meta_any,
                  names |-> r.names, deferred |-> FALSE, raised |-> r.raised]

\* handle_return_type for the wrapper's argument, given its member table
handle_return_type(tbl) ==
    IF "_pyi_data" \in DOMAIN tbl /\ SymbolType(tbl["_pyi_data"]) # NoType
    THEN SymbolType(tbl["_pyi_data"])[1]
    ELSE MappingType

----------------------------------------------------------------------------
(* The host's run.                                                         *)

NoCall == [n |-> 0, cls |-> "", final |-> FALSE, after_deferral |-> FALSE,
           hook |-> FALSE, base_process |-> FALSE, deferred |-> FALSE, raised |-> "",
           ser |-> NoSer]

NotAnalyzed == [cls |-> "", side_entry |-> FALSE, result |-> MappingType]

Init ==
    /\ bases = [c \in Classes |-> ""]
    /\ names = [c \in Classes |-> EmptyDict]
    /\ metadata = EmptyDict
    /\ meta_any = {}
    /\ phase = [c \in Classes |-> "undeclared"]
    /\ call = NoCall
    /\ analyzed = NotAnalyzed

\* The host prepares the class definition of c with base b and the members its
\* author declared.
ClassDef(c, b, members) ==
    /\ bases[c] = ""
    /\ Declared(b, bases)
    /\ c \in LibraryClasses => b = LibraryBase(c) /\ members = {}
    /\ bases' = [bases EXCEPT ![c] = b]
    /\ names' = [names EXCEPT ![c] = [m \in members |-> UserEntry(m)]]
    /\ phase' = [phase EXCEPT ![c] = "declared"]
    /\ UNCHANGED <<metadata, meta_any, call, analyzed>>

\* One analysis pass of the host over the class definition of c: it asks the
\* plugin for the hook of the class's base and calls the handler it gets.
AnalyzePass(c, final_iteration, ser) ==
    /\ bases[c] # ""
    /\ call.n < MaxCalls
    /\ phase[c] = "final" => final_iteration
    /\ LET hook == get_base_class_hook(bases[c], metadata, bases)
           serial == call.n + 1
       IN  /\ ser = NoSer <=> ~hook.handler
           /\ IF hook.handler
              THEN LET r == handle_serializer_class(c, final_iteration,
                                hook.base_process, ser, serial, hook.metadata,
                                meta_any, bases, names[c])
                   IN  /\ metadata' = r.metadata
                       /\ meta_any' = r.meta_any
                       /\ names' = [names EXCEPT ![c] = r.names]
                       /\ call' = [n |-> serial, cls |-> c, final |-> final_iteration,
                                   after_deferral |-> phase[c] = "deferred",
                                   hook |-> TRUE, base_process |-> hook.base_process,
                                   deferred |-> r.deferred, raised |-> r.raised,
                                   ser |-> ser]
              ELSE /\ metadata' = hook.metadata
                   /\ call' = [n |-> serial, cls |-> c, final |-> final_iteration,
                               after_deferral |-> phase[c] = "deferred",
                               hook |-> FALSE, base_process |-> hook.base_process,
                               deferred |-> FALSE, raised |-> "", ser |-> ser]
                   /\ UNCHANGED <<meta_any, names>>
    /\ phase' = [phase EXCEPT ![c] = IF final_iteration THEN "final" ELSE "deferred"]
    /\ UNCHANGED <<bases, analyzed>>

\* The host meets SerializerDataType[c] in checked code.
AnalyzeType(c) ==
    /\ bases[c] # ""
    /\ analyzed' = [cls |-> c, side_entry |-> "_pyi_data" \in DOMAIN names[c],
                    result |-> handle_return_type(names[c])]
    /\ UNCHANGED <<bases, names, metadata, meta_any, phase, call>>

Next ==
    \/ \E c \in Classes, b \in Classes \cup {OBJECT_FULLNAME} : ClassDef(c, b, {})
    \/ \E c \in Classes, final_iteration \in BOOLEAN, ser \in HostSers \cup {NoSer} :
          AnalyzePass(c, final_iteration, ser)
    \/ \E c \in Classes : AnalyzeType(c)

\* The host's whole run: declarations, passes and type analyses in any order.
Spec == Init /\ [][Next]_vars

\* The class whose resolution is followed in detail.
Target == "app.PersonSerializer"

\* The state after the library's classes and Target, a subclass of Serializer
\* with any members of its own, have been declared.
InitResolve ==
    /\ bases = [c \in Classes |->
                  IF c \in LibraryClasses THEN LibraryBase(c)
                  ELSE IF c = Target THEN SERIALIZER_FULLNAME ELSE ""]
    /\ \E members \in SUBSET {"fields", "data"} :
          names = [c \in Classes |->
                     IF c = Target THEN [m \in members |-> UserEntry(m)] ELSE EmptyDict]
    /\ metadata = EmptyDict
    /\ meta_any = {}
    /\ phase = [c \in Classes |-> IF bases[c] = "" THEN "undeclared" ELSE "declared"]
    /\ call = NoCall
    /\ analyzed = NotAnalyzed

NextResolve ==
    \/ \E final_iteration \in BOOLEAN, ser \in Sers \cup {NoSer} :
          AnalyzePass(Target, final_iteration, ser)
    \/ AnalyzeType(Target)

\* The passes of the host over one serializer class, with every outcome of the
\* dynamic import.
SpecResolve == InitResolve /\ [][NextResolve]_vars

NextFields ==
    /\ call.n = 0
    /\ \E ser \in FieldSers : AnalyzePass(Target, TRUE, ser)

\* One final pass over one serializer class, with every list of fields.
SpecFields == InitResolve /\ [][NextFields]_vars

----------------------------------------------------------------------------
(* Properties.                                                             *)

\* The members of a table that the plugin generated.
Injected(tbl) == {m \in DOMAIN tbl : tbl[m].plugin_generated}

\* The return type an entry's FuncDef carries.
RetType(entry) == entry.func_type[1]

\* The most recent hook invocation ran the handler on the final pass.
FinalHandlerCall == call.n > 0 /\ call.hook /\ call.final

\* The class the dynamic import gave is one the resolution applies to.
Applicable(ser) ==
    ser.importable /\ ser.has_attr /\ "ModelSerializer" \in ser.mro /\ ser.has_meta

\* The most recent invocation reached the injections of lines 64-74.
ReachedInjection ==
    FinalHandlerCall /\ Applicable(call.ser) /\ call.ser.in_modules /\ call.raised = ""

\* C1. Override precedence: a "fields" or "data" member that a class's table
\* holds before a step is still there after it, and is the very same entry;
\* the resolution neither installs nor replaces an entry of that name.
C1_OverridePrecedence ==
    [][\A c \in Classes : \A m \in {"fields", "data"} :
          m \in DOMAIN names[c] =>
              m \in DOMAIN names'[c] /\ names'[c][m] = names[c][m]]_vars

\* C1 happens: the resolution ran to its end on a class that declares its own
\* "fields", installed "data" in this invocation and left "fields" the author's.
C1_Witness ==
    /\ ReachedInjection
    /\ DOMAIN names[call.cls] = {"fields", "data", "_pyi_data"}
    /\ ~names[call.cls]["fields"].plugin_generated
    /\ names[call.cls]["data"].plugin_generated
    /\ names[call.cls]["data"].made_in = call.n

\* C2. Idempotence of re-entry: once a class is resolved (its table holds the
\* side entry "_pyi_data"), no later step changes the class's member table.
C2_Idempotence ==
    [][\A c \in Classes :
          "_pyi_data" \in DOMAIN names[c] => names'[c] = names[c]]_vars

\* C2 happens: the resolution ran to its end again on a class that an earlier
\* invocation had resolved.
C2_Witness ==
    /\ ReachedInjection
    /\ call.ser.fields # <<>>
    /\ names[call.cls]["_pyi_data"].plugin_generated
    /\ names[call.cls]["_pyi_data"].made_in < call.n
    /\ names[call.cls]["fields"].plugin_generated

\* C3. Deferred scheduling: every invocation of the handler on a non-final
\* pass requests deferral, returns normally and leaves every member table as
\* it was; the invocation on the final pass does not request deferral; a
\* member table of a declared class changes only in a handler invocation on
\* the final pass of that class; a class that has not reached the final pass
\* has no plugin-generated member.
C3_DeferredScheduling ==
    /\ [][/\ (call'.n # call.n /\ call'.hook /\ ~call'.final) =>
                call'.deferred /\ call'.raised = "" /\ names' = names
          /\ (call'.n # call.n /\ call'.hook /\ call'.final) => ~call'.deferred
          /\ \A c \in Classes :
                (bases[c] # "" /\ names'[c] # names[c]) =>
                    call'.n # call.n /\ call'.cls = c /\ call'.hook /\ call'.final
         ]_vars
    /\ [](\A c \in Classes : phase[c] # "final" => Injected(names[c]) = {})

\* C3 happens: a class whose earlier pass was deferred is resolved by the
\* handler on its final pass.
C3_Witness ==
    /\ FinalHandlerCall
    /\ call.after_deferral
    /\ ~call.deferred
    /\ Injected(names[call.cls]) = {"fields", "data", "_pyi_data"}
    /\ names[call.cls]["data"].made_in = call.n

\* C4. Mapping completeness: when the resolution has installed "fields" and
\* "data", "fields" has exactly one entry per field name, "data" has exactly
\* one entry per field, keyed by the field's source, and a field whose class
\* is not found has the any type in both.
C4_MappingCompleteness ==
    (/\ ReachedInjection
     /\ Injected(names[call.cls]) = {"fields", "data", "_pyi_data"}
     /\ names[call.cls]["data"].made_in = call.n
     /\ names[call.cls]["fields"].made_in = call.n)
    => LET fs == call.ser.fields
           ft == RetType(names[call.cls]["fields"]).items
           dt == RetType(names[call.cls]["data"]).items
       IN  /\ DOMAIN ft = {fs[i].name : i \in DOMAIN fs}
           /\ Cardinality(DOMAIN ft) = Len(fs)
           /\ DOMAIN dt = {fs[i].source : i \in DOMAIN fs}
           /\ Cardinality(DOMAIN dt) = Len(fs)
           /\ \A i \in DOMAIN fs :
                 ~Found(fs[i]) =>
                     ft[fs[i].name] = AnyType /\ dt[fs[i].source] = AnyType

\* C5. Not-applicable targets: a final-pass invocation whose loaded class is
\* not a ModelSerializer subclass, or has no Meta, changes no member table and
\* raises nothing.
C5_NotApplicable ==
    [][(/\ call'.n # call.n /\ call'.hook /\ call'.final
        /\ call'.ser.importable /\ call'.ser.has_attr
        /\ ~("ModelSerializer" \in call'.ser.mro /\ call'.ser.has_meta))
       => names' = names /\ call'.raised = ""]_vars

\* C5 happens: the handler ran on the final pass and loaded a class that has a
\* Meta but is no ModelSerializer, or is a ModelSerializer without Meta.
C5_Witness ==
    /\ FinalHandlerCall
    /\ call.ser.importable /\ call.ser.has_attr
    /\ \/ call.ser.has_meta /\ call.ser.mro = {"ListSerializer"}
       \/ ~call.ser.has_meta /\ "ModelSerializer" \in call.ser.mro
    /\ Injected(names[call.cls]) = {}

\* C6. No fault leaks: a final-pass invocation whose dynamic lookup fails
\* (module not importable, class absent from the module, module absent from
\* the checker's table) returns without an exception.
C6_NoFaultLeaks ==
    (/\ FinalHandlerCall
     /\ \/ ~call.ser.importable
        \/ ~call.ser.has_attr
        \/ Applicable(call.ser) /\ ~call.ser.in_modules)
    => call.raised = ""

\* C7. Registration: once the hook has returned the handler for a class and
\* the handler has run, the class's name is a key of the registry.
C7_Registration ==
    (call.n > 0 /\ call.hook) => call.cls \in Registry(metadata)

\* A declared class whose base has no Serializer in its hierarchy.
NonSerializer(c) ==
    IF bases[c] = "" THEN FALSE ELSE ~has_base(bases[c], SERIALIZER_FULLNAME, bases)

Processed(c) == phase[c] \in {"deferred", "final"}

OnlyNonSerializersProcessed ==
    /\ \E c \in Classes : Processed(c)
    /\ \A c \in Classes : Processed(c) => NonSerializer(c)

\* C8 as stated. Gating: after passes over classes without a serializer base
\* only, no metadata has been written and no property injected.
C8_NoMetadataWritten ==
    OnlyNonSerializersProcessed =>
        /\ metadata = EmptyDict
        /\ ~call.hook
        /\ \A c \in Classes : Injected(names[c]) = {}

\* C8, amended. Gating: the hook returns no handler for a class whose base has
\* no Serializer in its hierarchy; after passes over such classes only, the
\* registry holds no name but its default entry, the base serializer's, no
\* Meta has been widened and no property injected.
C8_Gating ==
    /\ (call.n > 0 /\ NonSerializer(call.cls)) => ~call.hook
    /\ OnlyNonSerializersProcessed =>
          /\ Registry(metadata) \subseteq DefaultRegistry
          /\ meta_any = {}
          /\ \A c \in Classes : Injected(names[c]) = {}

\* C8 happens: a user class deriving from the base serializer directly has
\* been processed, alone, and the lookup has written the default registry.
C8_Witness ==
    /\ OnlyNonSerializersProcessed
    /\ call.cls \in UserClasses
    /\ bases[call.cls] = BASE_SERIALIZER_FULLNAME
    /\ call.base_process
    /\ Registry(metadata) = DefaultRegistry

\* C9. Collection wrapping: the "data" property the most recent invocation
\* installed returns a list of the structural type exactly when the loaded
\* class is a list serializer.
C9_CollectionWrapping ==
    (/\ ReachedInjection
     /\ "data" \in Injected(names[call.cls])
     /\ names[call.cls]["data"].made_in = call.n)
    => (RetType(names[call.cls]["data"]).ctor = "typing.List"
            <=> "ListSerializer" \in call.ser.mro)

\* C10. Return-type resolver: handle_return_type returned the return type of
\* the entry recorded under "_pyi_data" when the class had that entry, and the
\* unconstrained mapping type when it had not.
C10_ReturnType ==
    analyzed.cls # "" =>
        IF analyzed.side_entry
        THEN analyzed.result = RetType(names[analyzed.cls]["_pyi_data"])
        ELSE analyzed.result = MappingType

====
